---- MODULE Spec2Model ----
(***************************************************************************)
(* Model of the htmx todo server (src/main.rs): one Mutex<AppState> shared *)
(* by the actix-web workers, and the four handlers index, add, toggle_done *)
(* and render_stats, each split into the steps it takes between acquiring  *)
(* the mutex and returning its response.                                   *)
(***************************************************************************)
EXTENDS Integers, Sequences, FiniteSets, TLC

\* ---------------------------------------------------------------- bounds
NumWorkers == 2
MaxTodos == 2

Workers == 1..NumWorkers
None == 0

\* ---------------------------------------------------------------- inputs
\* form field `prompt` of POST /add (no validation: the empty string is legal)
Prompts == {"", "milk"}

\* the `{id}` path segment of POST /{id}/done, as the characters received
Digit == [c \in {"0", "1", "2", "3", "4", "5", "6", "7", "8", "9"} |->
            CASE c = "0" -> 0 [] c = "1" -> 1 [] c = "2" -> 2 [] c = "3" -> 3
              [] c = "4" -> 4 [] c = "5" -> 5 [] c = "6" -> 6 [] c = "7" -> 7
              [] c = "8" -> 8 [] c = "9" -> 9]

\* ids of tasks that can exist, an id that is never assigned, and a segment
\* that is no number
Segments == { <<"0">>, <<"1">>, <<"9", "9">>, <<"x">> }

\* ------------------------------------------------------------- state
VARIABLES
    todos,        \* AppState.todos
    last_index,   \* AppState.last_index
    holder,       \* the worker owning the MutexGuard, or None
    poisoned,     \* the Mutex's poison flag
    pc,           \* each worker's position in its handler
    req,          \* each worker's current request
    lv,           \* each worker's handler locals
    resp,         \* the response a handler is about to return
    snap,         \* history: the store as it was when the worker took the mutex
    completed,    \* history: ids of the creates that returned, in order
    doneHist      \* history: per id, the done flag at creation and after the
                  \* first toggle, and the number of toggles so far modulo 2

vars == <<todos, last_index, holder, poisoned, pc, req, lv, resp, snap,
          completed, doneHist>>

\* ------------------------------------------------------------- values
NoReq == [kind |-> "none", prompt |-> "", seg |-> <<>>]
NoTodo == [id |-> 0, name |-> "", done |-> FALSE]
NoLocals == [lockOk |-> FALSE, id |-> 0, todo |-> NoTodo, found |-> <<>>,
             count |-> 0, len |-> 0]
NoResp == [status |-> 0, trigger |-> FALSE, body |-> [tag |-> "none"]]
NoHist == [seen |-> <<>>, flips |-> 0]
NoSnap == [taken |-> FALSE, todos |-> <<>>, last_index |-> 0, seen |-> {}]

Requests ==
    { [kind |-> "index", prompt |-> "", seg |-> <<>>],
      [kind |-> "stats", prompt |-> "", seg |-> <<>>] }
    \cup { [kind |-> "add", prompt |-> p, seg |-> <<>>] : p \in Prompts }
    \cup { [kind |-> "toggle", prompt |-> "", seg |-> s] : s \in Segments }

\* ------------------------------------------------------------- pure code
\* str::parse::<u128>: an optional leading '+', then one or more decimal
\* digits (a '-' is rejected for an unsigned type). The overflow error needs
\* a segment of 39 digits; the segments drawn here have at most two.
RECURSIVE DigitsValue(_)
DigitsValue(s) ==
    IF Len(s) = 0 THEN 0
    ELSE 10 * DigitsValue(SubSeq(s, 1, Len(s) - 1)) + Digit[s[Len(s)]]

AllDigits(s) == \A i \in 1..Len(s) : s[i] \in DOMAIN Digit

parse(seg) ==
    LET digits == IF Len(seg) > 0 /\ seg[1] = "+" THEN Tail(seg) ELSE seg
    IN  IF Len(digits) > 0 /\ AllDigits(digits)
        THEN [ok |-> TRUE, val |-> DigitsValue(digits)]
        ELSE [ok |-> FALSE, val |-> 0]

\* Todo::render
render(todo) ==
    [li      |-> <<"todo-", todo.id>>,
     strike  |-> todo.done,
     text    |-> todo.name,
     checked |-> todo.done,
     post    |-> <<"/", todo.id, "/done">>,
     target  |-> <<"#", "todo-", todo.id>>]

render_list(ts) == [i \in 1..Len(ts) |-> render(ts[i])]

\* mutant of CountDone: the filter is lost and every task is counted
CountDone_Unfiltered(ts) == Len(ts)

\* todos.iter().filter(|todo| todo.done).count()
RECURSIVE CountDone(_)
CountDone(ts) ==
    IF Len(ts) = 0 THEN 0
    ELSE (IF ts[Len(ts)].done THEN 1 ELSE 0) + CountDone(SubSeq(ts, 1, Len(ts) - 1))

\* format!("Complited {} of {} todos", ..)
Statistic(c, n) == <<"Complited ", c, " of ", n, " todos">>

\* mutants of Matches: the predicate accepts every task / compares off by one
Matches_Any(todo, id) == TRUE

Matches_OffByOne(todo, id) == todo.id = id + 1

\* |todo| todo.id == id
Matches(todo, id) == todo.id = id

\* state.todos.iter_mut().filter(..).collect(): the positions that match
RECURSIVE Filter(_, _, _)
Filter(ts, id, i) ==
    IF i > Len(ts) THEN <<>>
    ELSE (IF Matches(ts[i], id) THEN <<i>> ELSE <<>>) \o Filter(ts, id, i + 1)

\* mutant of Negate: the flag is set instead of flipped
Negate_Set(d) == TRUE

\* !item.done
Negate(d) == ~d

\* mutant of FlipAt: the flag of every task is flipped
FlipAt_All(ts, i) == [k \in 1..Len(ts) |-> [ts[k] EXCEPT !.done = Negate(ts[k].done)]]

\* item.done = !item.done, item being the task at position i
FlipAt(ts, i) == [ts EXCEPT ![i].done = Negate(ts[i].done)]

\* mutant of Push: the task is inserted at the front
Push_Front(ts, todo) == <<todo>> \o ts

\* state.todos.push(todo.clone())
Push(ts, todo) == Append(ts, todo)

\* mutants of Increment: the counter is left as it is / goes up by two
Increment_None(n) == n

Increment_Two(n) == n + 2

\* state.last_index += 1
Increment(n) == n + 1

\* mutant of NewTodo: the task is created already done
NewTodo_Done(id, prompt) == [id |-> id, name |-> prompt, done |-> TRUE]

\* Todo { id, name: form.prompt.clone(), done: false }
NewTodo(id, prompt) == [id |-> id, name |-> prompt, done |-> FALSE]

\* ApiError converted by the default ResponseError implementation
ApiError(name) ==
    [status |-> 500, trigger |-> FALSE,
     body |-> [tag |-> "error", text |-> <<"my error: ", name>>]]

\* add's answer when the mutex cannot be locked
AddLockError ==
    [status |-> 200, trigger |-> FALSE,
     body |-> [tag |-> "div", class |-> "bg-red-500",
               text |-> "An error occured during accouring the lock of the mutex"]]

\* HttpResponse::Ok().append_header(("HX-Trigger", "changedTodos")).body(..)
ChangedResponse(todo) ==
    [status |-> 200, trigger |-> TRUE, body |-> [tag |-> "task", li |-> render(todo)]]

\* mutant of NoContent: the 204 carries the HX-Trigger header too
NoContent_Trigger == [status |-> 204, trigger |-> TRUE, body |-> [tag |-> "empty"]]

\* HttpResponse::NoContent().body(())
NoContent == [status |-> 204, trigger |-> FALSE, body |-> [tag |-> "empty"]]

\* mutant of CanLock: lock() does not wait for the other guard
CanLock_Always(w) == TRUE

\* Mutex::lock blocks while another guard is alive
CanLock(w) == holder = None

\* ------------------------------------------------------------- init
Init ==
    /\ todos = <<>>
    /\ last_index = 0
    /\ holder = None
    /\ poisoned = FALSE
    /\ pc = [w \in Workers |-> "idle"]
    /\ req = [w \in Workers |-> NoReq]
    /\ lv = [w \in Workers |-> NoLocals]
    /\ resp = [w \in Workers |-> NoResp]
    /\ snap = [w \in Workers |-> NoSnap]
    /\ completed = <<>>
    /\ doneHist = [i \in 0..(MaxTodos - 1) |-> NoHist]

\* ------------------------------------------------------------- dispatch
AddsPending ==
    Cardinality({w \in Workers : req[w].kind = "add" /\ pc[w] \in {"lock", "add_id", "add_push"}})

\* the HTTP layer hands a request to an idle worker (main, App::service)
Dispatch(w, r) ==
    /\ pc[w] = "idle"
    /\ r.kind = "add" => Len(todos) + AddsPending < MaxTodos
    /\ pc' = [pc EXCEPT ![w] = "lock"]
    /\ req' = [req EXCEPT ![w] = r]
    /\ UNCHANGED <<todos, last_index, holder, poisoned, lv, resp, snap, completed, doneHist>>

\* ------------------------------------------------------------- the mutex
Ids(ts) == {ts[i].id : i \in 1..Len(ts)}
Range(s) == {s[i] : i \in 1..Len(s)}

\* mutant of LockOk: the poison flag is ignored (the guard is taken out of
\* the PoisonError and used)
LockOk_IgnorePoison(p) == TRUE

\* the variant lock() returns: Ok unless the mutex is poisoned
LockOk(p) == ~p

\* data.lock(): waits for the guard; a poisoned mutex is still acquired, and
\* the guard travels inside the Err value until the handler returns
Lock(w, kind, okPc, errPc) ==
    /\ pc[w] = "lock"
    /\ req[w].kind = kind
    /\ CanLock(w)
    /\ holder' = w
    /\ pc' = [pc EXCEPT ![w] = IF LockOk(poisoned) THEN okPc ELSE errPc]
    /\ lv' = [lv EXCEPT ![w].lockOk = LockOk(poisoned)]
    /\ snap' = [snap EXCEPT ![w] = [taken |-> TRUE, todos |-> todos,
                                     last_index |-> last_index, seen |-> Range(completed)]]
    /\ UNCHANGED <<todos, last_index, poisoned, req, resp, completed, doneHist>>

\* the handler returns: its locals, the guard among them, are dropped and
\* the response goes to the client
Return(w) ==
    /\ pc[w] = "ret"
    /\ holder' = IF holder = w THEN None ELSE holder
    /\ completed' = IF req[w].kind = "add" /\ lv[w].lockOk
                     THEN Append(completed, lv[w].todo.id) ELSE completed
    /\ pc' = [pc EXCEPT ![w] = "idle"]
    /\ req' = [req EXCEPT ![w] = NoReq]
    /\ lv' = [lv EXCEPT ![w] = NoLocals]
    /\ resp' = [resp EXCEPT ![w] = NoResp]
    /\ snap' = [snap EXCEPT ![w] = NoSnap]
    /\ UNCHANGED <<todos, last_index, poisoned, doneHist>>

\* a step that only moves a handler on and fills in locals / the response
Step(w, from, to, locals, response) ==
    /\ pc[w] = from
    /\ pc' = [pc EXCEPT ![w] = to]
    /\ lv' = [lv EXCEPT ![w] = locals]
    /\ resp' = [resp EXCEPT ![w] = response]
    /\ UNCHANGED <<todos, last_index, holder, poisoned, req, snap, completed, doneHist>>

\* ------------------------------------------------------------- GET /
index_lock(w) == Lock(w, "index", "index_count", "index_lockerr")

index_lockerr(w) == Step(w, "index_lockerr", "ret", lv[w], ApiError("mutex lock"))

index_count(w) ==
    Step(w, "index_count", "index_len", [lv[w] EXCEPT !.count = CountDone(todos)], resp[w])

index_len(w) ==
    Step(w, "index_len", "index_list", [lv[w] EXCEPT !.len = Len(todos)], resp[w])

index_list(w) ==
    Step(w, "index_list", "ret", lv[w],
         [status |-> 200, trigger |-> FALSE,
          body |-> [tag |-> "page",
                    statistic |-> Statistic(lv[w].count, lv[w].len),
                    list |-> render_list(todos)]])

\* ------------------------------------------------------------- POST /add
add_lock(w) == Lock(w, "add", "add_id", "add_lockerr")

add_lockerr(w) == Step(w, "add_lockerr", "ret", lv[w], AddLockError)

add_id(w) ==
    Step(w, "add_id", "add_push", [lv[w] EXCEPT !.id = last_index], resp[w])

add_push(w) ==
    /\ pc[w] = "add_push"
    /\ LET todo == NewTodo(lv[w].id, req[w].prompt)
       IN  /\ todos' = Push(todos, todo)
           /\ lv' = [lv EXCEPT ![w].todo = todo]
           /\ doneHist' = IF todo.id \in DOMAIN doneHist
                           THEN [doneHist EXCEPT ![todo.id] =
                                    [seen |-> <<todo.done>>, flips |-> 0]]
                           ELSE doneHist
    /\ pc' = [pc EXCEPT ![w] = "add_inc"]
    /\ UNCHANGED <<last_index, holder, poisoned, req, resp, snap, completed>>

add_inc(w) ==
    /\ pc[w] = "add_inc"
    /\ last_index' = Increment(last_index)
    /\ pc' = [pc EXCEPT ![w] = "add_resp"]
    /\ UNCHANGED <<todos, holder, poisoned, req, lv, resp, snap, completed, doneHist>>

add_resp(w) == Step(w, "add_resp", "ret", lv[w], ChangedResponse(lv[w].todo))

\* ------------------------------------------------------------- POST /{id}/done
toggle_lock(w) == Lock(w, "toggle", "toggle_parse", "toggle_lockerr")

toggle_lockerr(w) == Step(w, "toggle_lockerr", "ret", lv[w], ApiError("mutex lock"))

\* id.parse().unwrap(): the segment is parsed with the guard alive. An Err
\* makes unwrap panic: the unwinding drops the guard, which marks the mutex
\* poisoned and unlocks it, and the request ends without any response.
toggle_parse(w) ==
    /\ pc[w] = "toggle_parse"
    /\ LET r == parse(req[w].seg)
       IN  IF r.ok
           THEN /\ pc' = [pc EXCEPT ![w] = "toggle_filter"]
                /\ lv' = [lv EXCEPT ![w].id = r.val]
                /\ UNCHANGED <<holder, poisoned, req, snap>>
           ELSE /\ pc' = [pc EXCEPT ![w] = "idle"]
                /\ holder' = IF holder = w THEN None ELSE holder
                /\ poisoned' = TRUE
                /\ req' = [req EXCEPT ![w] = NoReq]
                /\ lv' = [lv EXCEPT ![w] = NoLocals]
                /\ snap' = [snap EXCEPT ![w] = NoSnap]
    /\ UNCHANGED <<todos, last_index, resp, completed, doneHist>>

toggle_filter(w) ==
    LET found == Filter(todos, lv[w].id, 1)
    IN  Step(w, "toggle_filter",
             IF Len(found) > 0 THEN "toggle_flip" ELSE "toggle_nocontent",
             [lv[w] EXCEPT !.found = found], resp[w])

\* item.done = !item.done on the first match
toggle_flip(w) ==
    /\ pc[w] = "toggle_flip"
    /\ LET i == lv[w].found[1]
           flipped == FlipAt(todos, i)
           d == flipped[i].done
           id == todos[i].id
       IN  /\ todos' = flipped
           /\ doneHist' = IF id \in DOMAIN doneHist
                           THEN [doneHist EXCEPT ![id] =
                                    [seen |-> IF Len(@.seen) = 1 THEN Append(@.seen, d)
                                              ELSE @.seen,
                                     flips |-> 1 - @.flips]]
                           ELSE doneHist
    /\ pc' = [pc EXCEPT ![w] = "toggle_resp"]
    /\ UNCHANGED <<last_index, holder, poisoned, req, lv, resp, snap, completed>>

toggle_resp(w) ==
    Step(w, "toggle_resp", "ret", lv[w], ChangedResponse(todos[lv[w].found[1]]))

toggle_nocontent(w) == Step(w, "toggle_nocontent", "ret", lv[w], NoContent)

\* ------------------------------------------------------------- GET /statistic
stats_lock(w) == Lock(w, "stats", "stats_count", "stats_lockerr")

stats_lockerr(w) == Step(w, "stats_lockerr", "ret", lv[w], ApiError("mutex lock"))

stats_count(w) ==
    Step(w, "stats_count", "stats_len", [lv[w] EXCEPT !.count = CountDone(todos)], resp[w])

stats_len(w) ==
    LET n == Len(todos)
    IN  Step(w, "stats_len", "ret", [lv[w] EXCEPT !.len = n],
             [status |-> 200, trigger |-> FALSE,
              body |-> [tag |-> "stats", statistic |-> Statistic(lv[w].count, n)]])

\* ------------------------------------------------------------- handlers
index(w) ==
    \/ index_lock(w) \/ index_lockerr(w) \/ index_count(w) \/ index_len(w) \/ index_list(w)

add(w) ==
    \/ add_lock(w) \/ add_lockerr(w) \/ add_id(w) \/ add_push(w) \/ add_inc(w) \/ add_resp(w)

toggle_done(w) ==
    \/ toggle_lock(w) \/ toggle_lockerr(w) \/ toggle_parse(w) \/ toggle_filter(w)
    \/ toggle_flip(w) \/ toggle_resp(w) \/ toggle_nocontent(w)

render_stats(w) ==
    \/ stats_lock(w) \/ stats_lockerr(w) \/ stats_count(w) \/ stats_len(w)

Next ==
    \E w \in Workers :
        \/ \E r \in Requests : Dispatch(w, r)
        \/ index(w)
        \/ add(w)
        \/ toggle_done(w)
        \/ render_stats(w)
        \/ Return(w)

Spec == Init /\ [][Next]_vars

\* ------------------------------------------------------------- typing
TypeOK ==
    /\ last_index \in Nat
    /\ holder \in Workers \cup {None}
    /\ poisoned \in BOOLEAN
    /\ \A w \in Workers : req[w] \in Requests \cup {NoReq}

\* ------------------------------------------------------------- vocabulary
InCS(w) == pc[w] \notin {"idle", "lock"}

Returning(w, kind) == pc[w] = "ret" /\ req[w].kind = kind

Malformed(r) == r.kind = "toggle" /\ ~parse(r.seg).ok

RenderPcs == {"index_count", "index_len", "index_list", "add_resp", "toggle_resp",
              "stats_count", "stats_len"}

DoneCount(ts) == Cardinality({i \in 1..Len(ts) : ts[i].done})

\* ------------------------------------------------------------- C1
\* C1: the ids of the creates that returned, in the order they returned, are
\* 0, 1, .., n-1; the ids in the store are 0, 1, .., in order, without
\* duplicates; and the id a create takes is greater than the id of every
\* create that had returned when it took the mutex.
C1_IdsSequential ==
    /\ \A i \in 1..Len(completed) : completed[i] = i - 1
    /\ \A i \in 1..Len(todos) : todos[i].id = i - 1
    /\ \A w \in Workers :
          (req[w].kind = "add" /\ pc[w] \in {"add_push", "add_inc", "add_resp", "ret"}
             /\ lv[w].lockOk)
             => \A j \in snap[w].seen : lv[w].id > j

C1_Witness ==
    \E w \in Workers :
        /\ Returning(w, "add") /\ lv[w].lockOk
        /\ lv[w].todo.id = 1
        /\ completed = <<0>>
        /\ resp[w].body.li.li = <<"todo-", 1>>

\* ------------------------------------------------------------- C2
\* C2: a toggle whose path segment does not parse as an unsigned integer
\* never holds the mutex, is answered with a 4xx status, and leaves the
\* mutex unpoisoned, so that later requests can still lock it.
C2_MalformedNeverReachesStore ==
    /\ \A w \in Workers :
          Malformed(req[w]) =>
              /\ holder # w
              /\ pc[w] = "ret" => resp[w].status \in 400..499
    /\ ~poisoned

\* ------------------------------------------------------------- C3
\* C3: a handler whose lock() returned Err returns a 5xx response carrying
\* the error label, never a 2xx.
C3_LockFailureIs500 ==
    \A w \in Workers :
        (pc[w] = "ret" /\ ~lv[w].lockOk) =>
            /\ resp[w].status \in 500..599
            /\ resp[w].body.tag = "error"

\* ------------------------------------------------------------- C4
\* C4: a toggle whose id is the id of no task in the store answers 204 with
\* an empty body, and the task sequence and the counter are what they were
\* when it took the mutex (so the counts of a following summary are too).
C4_ToggleUnknownIsNoop ==
    \A w \in Workers :
        (req[w].kind = "toggle" /\ lv[w].lockOk
           /\ pc[w] \in {"toggle_flip", "toggle_resp", "toggle_nocontent", "ret"}
           /\ lv[w].id \notin Ids(snap[w].todos))
        => /\ pc[w] \in {"toggle_nocontent", "ret"}
           /\ todos = snap[w].todos
           /\ last_index = snap[w].last_index
           /\ DoneCount(todos) = DoneCount(snap[w].todos)
           /\ pc[w] = "ret" =>
                 /\ resp[w].status = 204
                 /\ resp[w].body = [tag |-> "empty"]

C4_Witness ==
    \E w \in Workers :
        /\ Returning(w, "toggle") /\ lv[w].lockOk
        /\ lv[w].id = 99
        /\ Len(todos) >= 1
        /\ resp[w].status = 204

\* ------------------------------------------------------------- C5
\* C5: after an even number of toggles of its id a task's done flag is the
\* value it had at creation, and after an odd number it is the value it had
\* after the first toggle: two toggles of one id, whatever happens between
\* them to other ids, bring the flag back to where it was.
C5_ToggleTwiceRestores ==
    \A i \in 1..Len(todos) :
        todos[i].id \in DOMAIN doneHist =>
            LET h == doneHist[todos[i].id]
            IN  Len(h.seen) > h.flips => todos[i].done = h.seen[h.flips + 1]

C5_Witness ==
    /\ Len(todos) >= 2
    /\ Len(doneHist[0].seen) = 2 /\ doneHist[0].flips = 0
    /\ doneHist[1].flips = 1

\* ------------------------------------------------------------- C6
\* C6: the two numbers of a summary response satisfy 0 <= completed <= total,
\* total is the length of the task sequence and completed the number of
\* tasks that are done, in the store as it is while the handler holds it.
C6_SummaryCounts ==
    \A w \in Workers :
        (Returning(w, "stats") /\ lv[w].lockOk) =>
            /\ 0 <= lv[w].count /\ lv[w].count <= lv[w].len
            /\ lv[w].len = Len(todos)
            /\ lv[w].count = DoneCount(todos)
            /\ todos = snap[w].todos
            /\ resp[w].body.statistic[2] = DoneCount(todos)
            /\ resp[w].body.statistic[4] = Len(todos)

C6_Witness ==
    \E w \in Workers :
        /\ Returning(w, "stats") /\ lv[w].lockOk
        /\ lv[w].len = 2 /\ lv[w].count = 1

\* ------------------------------------------------------------- C7
\* C7: a response carries the HX-Trigger header exactly when the store
\* differs from what it was when the handler took the mutex; a create that
\* locked and a toggle that found its task carry it, and the 204, the page,
\* the summary and the lock-error responses do not.
C7_TriggerIffChanged ==
    \A w \in Workers :
        pc[w] = "ret" =>
            /\ resp[w].trigger <=>
                  (todos # snap[w].todos \/ last_index # snap[w].last_index)
            /\ resp[w].trigger <=>
                  /\ lv[w].lockOk
                  /\ \/ req[w].kind = "add"
                     \/ req[w].kind = "toggle" /\ resp[w].status = 200

C7_Witness ==
    \E w \in Workers :
        /\ Returning(w, "toggle")
        /\ resp[w].trigger
        /\ todos # snap[w].todos

\* ------------------------------------------------------------- C8
\* C8: at most one handler is between its lock() and its return, and the
\* counter differs from the length of the task sequence only while the one
\* handler inside is the create that has pushed and not yet incremented.
C8_Atomic ==
    /\ \A w1, w2 \in Workers : (InCS(w1) /\ InCS(w2)) => w1 = w2
    /\ \A w \in Workers : InCS(w) => holder = w
    /\ \A w \in Workers :
          (InCS(w) /\ pc[w] # "add_inc") => last_index = Len(todos)
    /\ (\A w \in Workers : ~InCS(w)) => last_index = Len(todos)

C8_Witness ==
    \E w1, w2 \in Workers :
        /\ w1 # w2
        /\ pc[w1] = "add_inc" /\ last_index # Len(todos)
        /\ pc[w2] = "lock"

\* ------------------------------------------------------------- C9
\* C9: the task of every create that returned is in the store; a toggle of
\* an id whose create had returned when the toggle took the mutex answers
\* 200 with that task's fragment; and a page read shows every such task.
C9_CreatedIsVisible ==
    /\ Range(completed) \subseteq Ids(todos)
    /\ \A w \in Workers :
          (Returning(w, "toggle") /\ lv[w].lockOk /\ lv[w].id \in snap[w].seen)
          => /\ resp[w].status = 200
             /\ resp[w].body.tag = "task"
             /\ resp[w].body.li.li = <<"todo-", lv[w].id>>
    /\ \A w \in Workers :
          (Returning(w, "index") /\ lv[w].lockOk)
          => \A i \in snap[w].seen :
                \E k \in DOMAIN resp[w].body.list :
                    resp[w].body.list[k].li = <<"todo-", i>>

C9_Witness ==
    \E w \in Workers :
        /\ Returning(w, "toggle") /\ lv[w].lockOk
        /\ lv[w].id = 1 /\ 1 \in snap[w].seen
        /\ resp[w].status = 200

\* ------------------------------------------------------------- C10
\* C10: no handler is at a step that renders markup or builds its response
\* while it owns the mutex guard.
C10_RenderWithoutLock ==
    \A w \in Workers : pc[w] \in RenderPcs => holder # w

\* ------------------------------------------------------------- C11
\* C11: a request ends only by its handler returning, with exactly one
\* response of the defined set: 200 with markup, 204 empty, a 4xx or a 5xx.
DefinedResponse(r) ==
    \/ r.status = 200 /\ r.body.tag \in {"page", "task", "stats", "div"}
    \/ r.status = 204 /\ r.body.tag = "empty"
    \/ r.status \in 400..499
    \/ r.status \in 500..599

C11_EveryRequestAnswered ==
    [][\A w \in Workers :
          (pc[w] # "idle" /\ pc'[w] = "idle") =>
              (pc[w] = "ret" /\ DefinedResponse(resp[w]))]_vars

\* ------------------------------------------------------------- C12
\* C12: once the mutex is poisoned it stays poisoned, the task sequence and
\* the counter never change again, and every handler that locks it takes
\* its lock-error branch and goes nowhere near the store.
LockErrPcs == {"index_lockerr", "add_lockerr", "toggle_lockerr", "stats_lockerr"}

C12_PoisonedIsFrozen ==
    /\ [](poisoned =>
            \A w \in Workers :
                InCS(w) => /\ ~lv[w].lockOk
                           /\ pc[w] \in LockErrPcs \cup {"ret"}
                           /\ pc[w] = "ret" => resp[w].body.tag \in {"error", "div"})
    /\ [][poisoned =>
            /\ poisoned'
            /\ todos' = todos
            /\ last_index' = last_index]_vars

C12_Witness ==
    /\ poisoned
    /\ Len(todos) >= 1
    /\ \E w1, w2 \in Workers :
          /\ Returning(w1, "add") /\ ~lv[w1].lockOk
          /\ pc[w2] = "lock" /\ req[w2].kind = "toggle" /\ req[w2].seg = <<"0">>

\* ------------------------------------------------------------- C13
\* C13: when a toggle that found its task returns, the store differs from
\* what it was when the toggle took the mutex in the done flag of the task
\* with the requested id and in nothing else: same length, same counter,
\* same ids and texts in the same order, same done flags of the other tasks.
C13_ToggleFrame ==
    \A w \in Workers :
        (Returning(w, "toggle") /\ lv[w].lockOk /\ resp[w].status = 200) =>
            LET old == snap[w].todos
            IN  /\ Len(todos) = Len(old)
                /\ last_index = snap[w].last_index
                /\ \A i \in 1..Len(old) :
                      /\ todos[i].id = old[i].id
                      /\ todos[i].name = old[i].name
                      /\ old[i].id # lv[w].id => todos[i].done = old[i].done
                      /\ old[i].id = lv[w].id => todos[i].done = ~old[i].done

C13_Witness ==
    \E w \in Workers :
        /\ Returning(w, "toggle") /\ resp[w].status = 200
        /\ lv[w].id = 0
        /\ Len(todos) = 2
        /\ todos[2].done /\ todos[2].name = "milk"
        /\ todos[1].done # snap[w].todos[1].done

\* ------------------------------------------------------------- C14
\* C14: in every step the task sequence keeps its tasks where they are, with
\* their ids and texts; it only grows at the end and changes done flags.
C14_AppendOnly ==
    [][/\ Len(todos') >= Len(todos)
       /\ \A i \in 1..Len(todos) :
             /\ todos'[i].id = todos[i].id
             /\ todos'[i].name = todos[i].name]_vars

C14_Witness ==
    /\ Len(todos) = 2
    /\ todos[1].name = "milk" /\ todos[1].done
    /\ todos[2].name = ""

\* ------------------------------------------------------------- C15
\* C15: a create that locked a healthy mutex returns 200 with the fragment
\* of the task it made, and the store is the store it found with one task
\* appended (id the counter it found, the prompt as text, not done) and the
\* counter one higher; the prompt may be the empty string.
C15_CreateAppendsOne ==
    \A w \in Workers :
        (Returning(w, "add") /\ lv[w].lockOk) =>
            LET old == snap[w].todos
                n == Len(old)
            IN  /\ Len(todos) = n + 1
                /\ \A i \in 1..n : todos[i] = old[i]
                /\ todos[n + 1].id = snap[w].last_index
                /\ todos[n + 1].name = req[w].prompt
                /\ todos[n + 1].done = FALSE
                /\ last_index = snap[w].last_index + 1
                /\ resp[w].status = 200
                /\ resp[w].body.tag = "task"
                /\ resp[w].body.li.li = <<"todo-", snap[w].last_index>>
                /\ resp[w].body.li.text = req[w].prompt
                /\ resp[w].body.li.checked = FALSE
                /\ resp[w].body.li.strike = FALSE

C15_Witness ==
    \E w \in Workers :
        /\ Returning(w, "add") /\ lv[w].lockOk
        /\ req[w].prompt = ""
        /\ Len(snap[w].todos) = 1 /\ snap[w].todos[1].done
        /\ resp[w].status = 200

\* ------------------------------------------------------------- C16
\* C16: in a page response the two numbers of the statistic line are the
\* number of checked items and the number of items of the list in that
\* same response, whatever other requests are in flight.
C16_PageConsistent ==
    \A w \in Workers :
        (Returning(w, "index") /\ lv[w].lockOk) =>
            LET page == resp[w].body
            IN  /\ resp[w].status = 200
                /\ page.statistic[4] = Len(page.list)
                /\ page.statistic[2] =
                      Cardinality({k \in DOMAIN page.list : page.list[k].checked})
                /\ \A k \in DOMAIN page.list :
                      /\ page.list[k].li = <<"todo-", todos[k].id>>
                      /\ page.list[k].checked = todos[k].done

C16_Witness ==
    \E w1, w2 \in Workers :
        /\ Returning(w1, "index") /\ lv[w1].lockOk
        /\ Len(resp[w1].body.list) = 2
        /\ resp[w1].body.statistic[2] = 1
        /\ pc[w2] = "lock" /\ req[w2].kind = "toggle"

\* ------------------------------------------------------------- C17
\* C17: the store starts empty with the counter at 0; whenever no guard is
\* alive the counter is the length of the task sequence and the task at
\* position i (from 0) has id i; the counter never goes down, and it
\* changes only in the increment step of a create, by exactly one.
C17_CounterIsLength ==
    /\ (last_index = 0 /\ todos = <<>>)
    /\ [](holder = None =>
            /\ last_index = Len(todos)
            /\ \A i \in 1..Len(todos) : todos[i].id = i - 1)
    /\ [][/\ last_index' >= last_index
           /\ last_index' # last_index =>
                 /\ last_index' = last_index + 1
                 /\ \E w \in Workers :
                       /\ req[w].kind = "add"
                       /\ pc[w] = "add_inc" /\ pc'[w] = "add_resp"]_vars

C17_Witness ==
    /\ holder = None
    /\ last_index = 2
    /\ Len(todos) = 2
    /\ \E w \in Workers : pc[w] = "lock"

====
